---- MODULE Spec2Model ----
(***************************************************************************)
(* State-machine model of the ThingsBoard telemetry exporter               *)
(* (src/export/telemetry.py, the __main__ script) and of the attribute     *)
(* lookup (src/export/get_attribute.py, get_attribute).                    *)
(*                                                                         *)
(* Strings are sequences of one-character strings, so that                 *)
(* args.keys.split(",") and ",".join(telemetry_keys) are computed, not     *)
(* assumed.  Datetimes are integers counted in ticks (the resolution of a  *)
(* datetime); a remote timestamp is a number of milliseconds.              *)
(***************************************************************************)
EXTENDS Integers, Sequences, FiniteSets, TLC

VARIABLES
    (* --- environment of telemetry.py: fixed by Init, never changed --- *)
    args,          \* parsed command line: start_time, end_time, keys, output_format
    cloud,         \* the server's data: device id -> [attributes, keys, points]
    profile,       \* the device ids the profile query returns, in order
    closedEnd,     \* TRUE when the server treats end_ts as inclusive
    fperr,         \* datetime -> 0/1: what float rounding takes off timestamp()*1000
    failAt,        \* the remote call that fails, counted from 1; 0 when none does
    (* --- program state of telemetry.py --- *)
    pc,            \* position in the script
    bound,         \* the names that are assigned so far (others raise NameError)
    device_ids,    \* line 143
    idx,           \* position of the for loop in device_ids
    all_meta,      \* line 148
    meta,          \* line 150
    telemetry_keys,\* line 168 / 176
    dt_start,      \* line 182
    dt_end,        \* line 183
    dt_current,    \* line 184
    df,            \* the DataFrame: [columns, rows]
    res,           \* the last get_timeseries response
    records,       \* the records merged from res
    error,         \* the exception that ended the script, "" when none
    files,         \* table files on disk: sequence of writes [name, columns, rows]
    meta_file,     \* << >> until written, then << [name, content] >>
    (* --- history of the run --- *)
    calls,         \* every remote call and file write, in order
    batches,       \* records of each batch of the current device, in order
    (* --- get_attribute.py --- *)
    directory,     \* the server's devices: id -> [match, attr]
    rows,          \* the CSV's first column
    row,           \* index of the row being looked up
    looked,        \* per row processed: the query result and what get_attribute did
    apc            \* position in get_attribute.py

evars == <<pc, bound, device_ids, idx, all_meta, meta, telemetry_keys, dt_start,
           dt_end, dt_current, df, res, records, error, files, meta_file,
           calls, batches>>
envvars == <<args, cloud, profile, closedEnd, fperr, failAt>>
avars == <<directory, rows, row, looked, apc>>
vars == <<envvars, evars, avars>>

----------------------------------------------------------------------------
(* Bounds of the model *)

MaxDevices == 2       \* devices a profile holds
MaxDays == 3          \* the last day on which a range may start or end
MaxPoints == 2        \* samples the server stores for the devices of a run
MaxArgLen == 3        \* characters of the --keys argument
MaxDirectory == 3     \* devices of the server get_attribute queries
MaxRows == 2          \* rows of the CSV file
TicksPerMs == 2       \* datetimes told apart within a millisecond

(* Scaled program constants *)

MsPerSecond == 2                \* timestamp() * 1000: milliseconds per second
batch_window == MsPerSecond * TicksPerMs   \* timedelta(hours=24), here one second
points_limit == 2               \* max number of telemetry points per request
device_limit == 2               \* max number of devices per profile query
pageSize == 2                   \* "pageLink": {"page": 0, "pageSize": 2}

----------------------------------------------------------------------------
(* Strings *)

COMMA == ","
KT == <<"t">>
KH == <<"h">>
TS == <<"t", "s">>      \* the column name "ts"

None == << >>           \* an absent optional value is the empty tuple,
Some(x) == <<x>>        \* a present one the 1-tuple

Range(s) == {s[i] : i \in 1..Len(s)}

Min(a, b) == IF a <= b THEN a ELSE b

\* str.split(","): "" gives [""], "a," gives ["a", ""]
RECURSIVE Split(_)
Split(s) ==
    IF \A i \in 1..Len(s) : s[i] # COMMA
    THEN <<s>>
    ELSE LET i == CHOOSE j \in 1..Len(s) :
                      s[j] = COMMA /\ \A k \in 1..(j - 1) : s[k] # COMMA
         IN <<SubSeq(s, 1, i - 1)>> \o Split(SubSeq(s, i + 1, Len(s)))

\* ",".join(list)
RECURSIVE Join(_)
Join(list) ==
    IF list = << >> THEN << >>
    ELSE IF Len(list) = 1 THEN list[1]
    ELSE list[1] \o <<COMMA>> \o Join(Tail(list))

\* a list comprehension [x for x in list if x in keep]
RECURSIVE Filter(_, _)
Filter(list, keep) ==
    IF list = << >> THEN << >>
    ELSE (IF Head(list) \in keep THEN <<Head(list)>> ELSE << >>)
         \o Filter(Tail(list), keep)

----------------------------------------------------------------------------
(* Time *)

\* datetime.date(): the day a datetime falls on
DateOf(dt) == dt \div batch_window

\* int(dt.timestamp() * 1000): timestamp() is a float of seconds and the
\* product is truncated.  A whole number of seconds converts exactly; for some
\* datetimes that are a whole number of milliseconds but not of seconds the
\* product lies just below that number and a millisecond is lost (fperr[dt] = 1,
\* as for 1978-08-06T17:51:03.613+00:00, which gives 271273863612)
ToMs(dt) == (dt \div TicksPerMs) - fperr[dt]

----------------------------------------------------------------------------
(* The ThingsBoard server, as the script's remote calls see it *)

KeyIndex(k) == IF k = KT THEN 1 ELSE IF k = KH THEN 2 ELSE 3

\* the value the server stores for a key of a device at a timestamp
ValueOf(d, k, ts) == 100 * d + 10 * ts + KeyIndex(k)

\* find_entity_data_by_query_using_post(body=device_query(profile)): one page
\* of at most pageSize = device_limit entities
FindDevices == SubSeq(profile, 1, Min(Len(profile), device_limit))

\* get_attribute_keys(EntityId(device_id, "DEVICE"))
AttributeKeysOf(d) ==
    [i \in 1..Len(cloud[d].attributes) |-> cloud[d].attributes[i].key]

\* get_attributes(EntityId(device_id, "DEVICE"), keys): the attributes named in
\* the comma-separated keys, all of them when keys is empty
AttributesOf(d, keys) ==
    LET all == cloud[d].attributes
        named(a) == keys = << >> \/ a.key \in Range(Split(keys))
    IN SelectSeq(all, named)

\* get_timeseries_keys_using_get1
TimeseriesKeysOf(d) == cloud[d].keys

\* the timestamps in S as a list, latest first
RECURSIVE Descending(_)
Descending(S) ==
    IF S = {} THEN << >>
    ELSE LET m == CHOOSE x \in S : \A y \in S : y <= x
         IN <<m>> \o Descending(S \ {m})

\* the samples of one key in a window: latest first, at most limit of them
SamplesOf(d, k, start_ts, end_ts, limit) ==
    LET inWindow(ts) == /\ start_ts <= ts
                        /\ (ts < end_ts \/ (closedEnd /\ ts = end_ts))
        hits == {p.ts : p \in {q \in cloud[d].points : q.key = k /\ inWindow(q.ts)}}
        desc == Descending(hits)
        kept == SubSeq(desc, 1, Min(Len(desc), limit))
    IN [i \in 1..Len(kept) |-> [ts |-> kept[i], value |-> ValueOf(d, k, kept[i])]]

\* the requested key names without repetitions, in the order requested
RECURSIVE Distinct(_)
Distinct(list) ==
    IF list = << >> THEN << >>
    ELSE LET rest == Distinct(SubSeq(list, 1, Len(list) - 1))
             last == list[Len(list)]
         IN IF last \in Range(rest) THEN rest ELSE Append(rest, last)

\* get_timeseries_using_get(entity_id, keys, start_ts, end_ts, limit): one entry
\* per requested key the device has, {"key": [{"ts":..,"value":..}, ...], ...}
TimeseriesOf(d, keys, start_ts, end_ts, limit) ==
    LET known(k) == k \in Range(cloud[d].keys)
        asked == SelectSeq(Distinct(Split(keys)), known)
    IN [i \in 1..Len(asked) |->
           [key |-> asked[i],
            samples |-> SamplesOf(d, asked[i], start_ts, end_ts, limit)]]

----------------------------------------------------------------------------
(* Dictionaries and DataFrames *)

\* d[k] = v on a dict d
Put(d, k, v) == [x \in (DOMAIN d) \cup {k} |-> IF x = k THEN v ELSE d[x]]

\* mutant of SetSample: records[ts] = {"ts": ts, key: value}, which drops what
\* other keys stored at that timestamp
SetSampleClobbers(recs, key, ts, value) ==
    IF \E i \in 1..Len(recs) : recs[i].k = ts
    THEN LET i == CHOOSE j \in 1..Len(recs) : recs[j].k = ts
         IN [recs EXCEPT ![i].row = Put((TS :> ts), key, value)]
    ELSE Append(recs, [k |-> ts, row |-> Put((TS :> ts), key, value)])

\* row = records.setdefault(ts, {"ts": ts}); row[key] = value
\* records is the dict in insertion order: a list of [k, row]
SetSample(recs, key, ts, value) ==
    IF \E i \in 1..Len(recs) : recs[i].k = ts
    THEN LET i == CHOOSE j \in 1..Len(recs) : recs[j].k = ts
         IN [recs EXCEPT ![i].row = Put(recs[i].row, key, value)]
    ELSE Append(recs, [k |-> ts, row |-> Put((TS :> ts), key, value)])

\* for sample in samples: ...
RECURSIVE MergeSamples(_, _, _)
MergeSamples(recs, key, samples) ==
    IF samples = << >> THEN recs
    ELSE MergeSamples(SetSample(recs, key, Head(samples).ts, Head(samples).value),
                      key, Tail(samples))

\* for key, samples in res.items(): ...
RECURSIVE MergeResponse(_, _)
MergeResponse(recs, response) ==
    IF response = << >> THEN recs
    ELSE MergeResponse(MergeSamples(recs, Head(response).key, Head(response).samples),
                       Tail(response))

\* list(records.values())
ValuesOf(recs) == [i \in 1..Len(recs) |-> recs[i].row]

\* the columns of DataFrame.from_records(list of dicts): the dicts' keys in
\* the order they first appear; order names the order keys enter a dict
RECURSIVE ColumnsOf(_, _, _)
ColumnsOf(rws, order, acc) ==
    IF rws = << >> THEN acc
    ELSE LET new == (DOMAIN Head(rws)) \ Range(acc)
         IN ColumnsOf(Tail(rws), order, acc \o Filter(order, new))

FromRecords(rws, order) ==
    [columns |-> ColumnsOf(rws, <<TS>> \o order, << >>), rows |-> rws]

\* mutant of Concat: a union keyed on ts, in which b's row replaces a's
ConcatKeyedOnTs(a, b) ==
    LET replaced(r) == \A i \in 1..Len(b.rows) : b.rows[i][TS] # r[TS]
    IN [columns |-> a.columns \o Filter(b.columns, Range(b.columns) \ Range(a.columns)),
        rows |-> SelectSeq(a.rows, replaced) \o b.rows]

\* pd.concat([a, b], ignore_index=True): a's rows then b's, over the union of
\* the columns (a missing cell is NaN: the row has no such key)
Concat(a, b) ==
    [columns |-> a.columns \o Filter(b.columns, Range(b.columns) \ Range(a.columns)),
     rows |-> a.rows \o b.rows]

\* df.sort_values("ts"): the default sort is not stable, rows of equal ts come
\* out in any order
RECURSIVE SortedOrders(_, _)
SortedOrders(rws, S) ==
    IF S = {} THEN {<< >>}
    ELSE LET least == {i \in S : \A j \in S : rws[i][TS] <= rws[j][TS]}
         IN UNION {{<<rws[i]>> \o rest : rest \in SortedOrders(rws, S \ {i})} : i \in least}

SortValues(rws) == SortedOrders(rws, 1..Len(rws))

----------------------------------------------------------------------------
(* Initial states: the command line and the server the script meets *)

Devices == 1..MaxDevices
LastTick == MaxDays * batch_window
Times == 0..LastTick                 \* datetimes of the model

\* the timestamps samples are stored at: the last millisecond of the first
\* day and the first of the second (the boundary of the first two windows)
SampleTs == {(batch_window \div TicksPerMs) - 1, batch_window \div TicksPerMs}

\* lists of distinct device ids
DeviceLists ==
    {s \in UNION {[1..n -> Devices] : n \in 0..MaxDevices} :
        \A i, j \in 1..Len(s) : i # j => s[i] # s[j]}

KeyLists == {<< >>, <<KT>>, <<KH, KT>>}

\* device 1 carries a serial number attribute, the others carry none
AttributesFor(d) == IF d = 1 THEN <<[key |-> <<"s">>, value |-> 7]>> ELSE << >>

\* the servers holding at most maxPoints samples, all of them of the devices in devs
Clouds(devs, keyLists, maxPoints) ==
    LET candidates(kl) == {c \in [dev : devs, key : {KT, KH}, ts : SampleTs] :
                              c.key \in Range(kl[c.dev])}
        stores(kl) == {P \in SUBSET candidates(kl) : Cardinality(P) <= maxPoints}
    IN UNION {{[d \in Devices |->
                  [attributes |-> AttributesFor(d),
                   keys |-> IF d \in devs THEN kl[d] ELSE << >>,
                   points |-> {[key |-> c.key, ts |-> c.ts] : c \in {x \in P : x.dev = d}}]]
               : P \in stores(kl)}
              : kl \in [devs -> keyLists]}

NoFloatError == [t \in Times |-> 0]

\* float rounding can only take a millisecond off a datetime that is a whole
\* number of milliseconds and not a whole number of seconds
FloatErrors ==
    {f \in [Times -> {0, 1}] :
        \A t \in DOMAIN f :
            (t % TicksPerMs # 0 \/ t % (MsPerSecond * TicksPerMs) = 0) => f[t] = 0}

InitProgram ==
    /\ pc = "login"
    /\ bound = {}
    /\ device_ids = << >>
    /\ idx = 0
    /\ all_meta = << >>
    /\ meta = [device_id |-> 0, attributes |-> None,
               telemetry |-> [keys |-> None, exported_keys |-> None,
                              file |-> None, size |-> None]]
    /\ telemetry_keys = << >>
    /\ dt_start = 0
    /\ dt_end = 0
    /\ dt_current = 0
    /\ df = [columns |-> << >>, rows |-> << >>]
    /\ res = << >>
    /\ records = << >>
    /\ error = ""
    /\ files = << >>
    /\ meta_file = None
    /\ calls = << >>
    /\ batches = << >>

IdleLookup ==
    /\ directory = << >>
    /\ rows = << >>
    /\ row = 0
    /\ looked = << >>
    /\ apc = "off"

\* runs over whole days with every kind of device
Init ==
    /\ profile \in DeviceLists
    /\ cloud \in Clouds(Range(FindDevices), KeyLists, MaxPoints)
    /\ args \in [start_time : {0}, end_time : {0, LastTick},
                 keys : {None, Some(KT)}, output_format : {"csv"}]
    /\ closedEnd \in BOOLEAN
    /\ fperr = NoFloatError
    /\ failAt = 0
    /\ InitProgram
    /\ IdleLookup

----------------------------------------------------------------------------
(* telemetry.py, __main__ *)

\* the script never changes its environment, nor the other script's state
Frame == UNCHANGED <<envvars, avars>>

Call(op, d, keys, start_ts, end_ts) ==
    [op |-> op, device |-> d, keys |-> keys, start_ts |-> start_ts, end_ts |-> end_ts]

device_id == device_ids[idx]

\* mutant of ExportedKeys: key in args.keys, a substring test on the
\* argument that was never split
ExportedKeysBySubstring(keys) ==
    IF args.keys # None /\ args.keys[1] # << >>
    THEN LET a == args.keys[1]
             within(k) == \E i \in 1..Len(a) : \E j \in i..Len(a) : SubSeq(a, i, j) = k
         IN SelectSeq(keys, within)
    ELSE keys

\* lines 175-179: the filter applies when args.keys is neither None nor ""
ExportedKeys(keys) ==
    IF args.keys # None /\ args.keys[1] # << >>
    THEN Filter(keys, Range(Split(args.keys[1])))
    ELSE keys

\* lines 230-232
OutputFile == [start |-> DateOf(dt_start), end |-> DateOf(dt_end),
               device |-> device_id, ext |-> args.output_format]

\* the calls to the server (not the warning and the file writes the history
\* also keeps)
RemoteOps == {"token_login", "find_entity_data_by_query", "get_attribute_keys",
              "get_attributes", "get_timeseries_keys", "get_timeseries"}

RemoteCalls == {i \in 1..Len(calls) : calls[i].op \in RemoteOps}

\* the remote call the script is about to make is the one that fails
Fails == failAt # 0 /\ Cardinality(RemoteCalls) + 1 = failAt

\* mutant of Raise: the exception is caught and logged, and the call made again
RaiseAndRetry(call) ==
    /\ calls' = Append(calls, call)
    /\ error' = "ApiException"
    /\ pc' = pc

\* a remote call raises: nothing catches the exception, the script ends
Raise(call) ==
    /\ calls' = Append(calls, call)
    /\ error' = "ApiException"
    /\ pc' = "error"

\* lines 130-135: tb.token_login(token)
Login ==
    /\ Frame
    /\ pc = "login"
    /\ IF Fails
       THEN /\ Raise(Call("token_login", 0, << >>, 0, 0))
            /\ UNCHANGED <<bound, device_ids, idx, all_meta, meta, telemetry_keys,
                           dt_start, dt_end, dt_current, df, res, records, files, meta_file, batches>>
       ELSE /\ calls' = Append(calls, Call("token_login", 0, << >>, 0, 0))
            /\ pc' = "query"
            /\ UNCHANGED <<bound, device_ids, idx, all_meta, meta, telemetry_keys, dt_start,
                           dt_end, dt_current, df, res, records, error, files, meta_file,
                           batches>>

\* lines 139-148: the devices of the profile, and the empty all_meta
QueryDevices ==
    /\ Frame
    /\ pc = "query"
    /\ IF Fails
       THEN /\ Raise(Call("find_entity_data_by_query", 0, << >>, 0, 0))
            /\ UNCHANGED <<bound, device_ids, idx, all_meta, meta, telemetry_keys,
                           dt_start, dt_end, dt_current, df, res, records, files, meta_file, batches>>
       ELSE /\ calls' = Append(calls, Call("find_entity_data_by_query", 0, << >>, 0, 0))
            /\ device_ids' = FindDevices
            /\ all_meta' = << >>
            /\ idx' = 1
            /\ bound' = bound \cup {"res", "device_ids", "all_meta"}
            /\ pc' = "for"
            /\ UNCHANGED <<meta, telemetry_keys, dt_start, dt_end, dt_current, df, res,
                           records, error, files, meta_file, batches>>

\* lines 149-158: the next device, its fresh meta, and its attribute keys
GetAttributeKeys ==
    /\ Frame
    /\ pc = "for"
    /\ idx <= Len(device_ids)
    /\ IF Fails
       THEN /\ Raise(Call("get_attribute_keys", device_id, << >>, 0, 0))
            /\ meta' = [device_id |-> device_id, attributes |-> None,
                        telemetry |-> [keys |-> None, exported_keys |-> None,
                                       file |-> None, size |-> None]]
            /\ bound' = bound \cup {"device_id", "meta"}
            /\ UNCHANGED <<device_ids, idx, all_meta, telemetry_keys, dt_start,
                           dt_end, dt_current, df, res, records, files, meta_file, batches>>
       ELSE /\ meta' = [device_id |-> device_id, attributes |-> None,
                        telemetry |-> [keys |-> None, exported_keys |-> None,
                                       file |-> None, size |-> None]]
            /\ calls' = Append(calls, Call("get_attribute_keys", device_id, << >>, 0, 0))
            /\ bound' = bound \cup {"device_id", "meta", "attribute_keys"}
            /\ pc' = "attributes"
            /\ UNCHANGED <<device_ids, idx, all_meta, telemetry_keys, dt_start, dt_end,
                           dt_current, df, res, records, error, files, meta_file, batches>>

\* lines 161-162: meta["attributes"] = {a["key"]: a["value"] for a in res}
GetAttributes ==
    /\ Frame
    /\ pc = "attributes"
    /\ IF Fails
       THEN /\ Raise(Call("get_attributes", device_id,
                       Join(AttributeKeysOf(device_id)), 0, 0))
            /\ UNCHANGED <<bound, device_ids, idx, all_meta, meta, telemetry_keys,
                           dt_start, dt_end, dt_current, df, res, records, files, meta_file, batches>>
       ELSE /\ LET keys == Join(AttributeKeysOf(device_id))
                   got == AttributesOf(device_id, keys)
                   dict == [k \in {got[i].key : i \in 1..Len(got)} |->
                               LET i == CHOOSE j \in 1..Len(got) :
                                           /\ got[j].key = k
                                           /\ \A m \in (j + 1)..Len(got) : got[m].key # k
                               IN got[i].value]
               IN /\ calls' = Append(calls, Call("get_attributes", device_id, keys, 0, 0))
                  /\ meta' = [meta EXCEPT !.attributes = Some(dict)]
            /\ pc' = "telemetry_keys"
            /\ UNCHANGED <<bound, device_ids, idx, all_meta, telemetry_keys, dt_start, dt_end,
                           dt_current, df, res, records, error, files, meta_file, batches>>

\* mutant of EmptyTable: pd.DataFrame(), a table without columns
EmptyTableWithoutColumns(keys) == [columns |-> << >>, rows |-> << >>]

\* line 186: pd.DataFrame(columns=["ts", *telemetry_keys])
EmptyTable(keys) == [columns |-> <<TS>> \o keys, rows |-> << >>]

\* lines 168-186: the telemetry keys, the key filter, the range and the empty table
GetTimeseriesKeys ==
    /\ Frame
    /\ pc = "telemetry_keys"
    /\ IF Fails
       THEN /\ Raise(Call("get_timeseries_keys", device_id, << >>, 0, 0))
            /\ UNCHANGED <<bound, device_ids, idx, all_meta, meta, telemetry_keys,
                           dt_start, dt_end, dt_current, df, res, records, files, meta_file, batches>>
       ELSE /\ LET keys == TimeseriesKeysOf(device_id)
                   exported == ExportedKeys(keys)
               IN /\ calls' = Append(calls, Call("get_timeseries_keys", device_id, << >>, 0, 0))
                  /\ meta' = [meta EXCEPT !.telemetry.keys = Some(keys),
                                          !.telemetry.exported_keys = Some(exported)]
                  /\ telemetry_keys' = exported
                  /\ df' = EmptyTable(exported)
            /\ dt_start' = args.start_time
            /\ dt_end' = args.end_time
            /\ dt_current' = args.start_time
            /\ bound' = bound \cup {"telemetry_keys", "dt_start", "dt_end", "dt_current", "df"}
            /\ batches' = << >>
            /\ pc' = "while"
            /\ UNCHANGED <<device_ids, idx, all_meta, res, records, error, files, meta_file>>

\* lines 216-217: the batch's records join the table, when there are any
AppendRecords(table, recs, order) ==
    IF Len(recs) > 0
    THEN Concat(table, FromRecords(ValuesOf(recs), order))
    ELSE table

\* lines 187-220: one time window: request, merge, append, advance
GetTimeseries ==
    /\ Frame
    /\ pc = "while"
    /\ dt_current < dt_end
    /\ IF Fails
       THEN /\ Raise(Call("get_timeseries", device_id, Join(telemetry_keys),
                            ToMs(dt_current),
                            ToMs(Min(dt_current + batch_window, dt_end))))
            /\ bound' = bound \cup {"ts", "te"}
            /\ UNCHANGED <<device_ids, idx, all_meta, meta, telemetry_keys, dt_start,
                           dt_end, dt_current, df, res, records, files, meta_file, batches>>
       ELSE /\ LET ts == ToMs(dt_current)
                   te == ToMs(Min(dt_current + batch_window, dt_end))
                   keys == Join(telemetry_keys)
                   got == TimeseriesOf(device_id, keys, ts, te, points_limit)
                   merged == MergeResponse(<< >>, got)
                   order == [i \in 1..Len(got) |-> got[i].key]
               IN /\ calls' = Append(calls, Call("get_timeseries", device_id, keys, ts, te))
                  /\ res' = got
                  /\ records' = merged
                  /\ df' = AppendRecords(df, merged, order)
                  /\ batches' = Append(batches, ValuesOf(merged))
            /\ dt_current' = dt_current + batch_window
            /\ bound' = bound \cup {"ts", "te", "records"}
            /\ pc' = "while"
            /\ UNCHANGED <<device_ids, idx, all_meta, meta, telemetry_keys, dt_start, dt_end,
                           error, files, meta_file>>

\* lines 222-239: after the last window: skip an empty table, or sort it,
\* write it and note file and size in meta; then on to the next device
FinishDevice ==
    /\ Frame
    /\ pc = "while"
    /\ ~(dt_current < dt_end)
    /\ IF Len(df.rows) = 0
       THEN /\ calls' = Append(calls, Call("warning_no_data", device_id, << >>, 0, 0))
            /\ UNCHANGED <<df, files, meta>>
       ELSE \E sorted \in SortValues(df.rows) :
            /\ df' = [df EXCEPT !.rows = sorted]
            /\ files' = Append(files, [name |-> OutputFile, columns |-> df.columns,
                                       rows |-> sorted])
            /\ calls' = Append(calls, Call("write_file", device_id, << >>, 0, 0))
            /\ meta' = [meta EXCEPT !.telemetry.file = Some(OutputFile),
                                    !.telemetry.size = Some(Len(sorted))]
    /\ idx' = idx + 1
    /\ pc' = "for"
    /\ UNCHANGED <<bound, device_ids, all_meta, telemetry_keys, dt_start, dt_end,
                   dt_current, res, records, error, meta_file, batches>>

\* lines 241-245, after the loop: all_meta.append(meta) and the metadata file;
\* meta and dt_start are names the loop body assigns
SaveMetadata ==
    /\ Frame
    /\ pc = "for"
    /\ ~(idx <= Len(device_ids))
    /\ IF {"meta", "dt_start", "dt_end"} \subseteq bound
       THEN /\ all_meta' = Append(all_meta, meta)
            /\ meta_file' = Some([name |-> [start |-> DateOf(dt_start),
                                            end |-> DateOf(dt_end)],
                                  content |-> Append(all_meta, meta)])
            /\ calls' = Append(calls, Call("write_metadata", 0, << >>, 0, 0))
            /\ pc' = "done"
            /\ UNCHANGED error
       ELSE /\ error' = "NameError"
            /\ pc' = "error"
            /\ UNCHANGED <<all_meta, meta_file, calls>>
    /\ UNCHANGED <<bound, device_ids, idx, meta, telemetry_keys, dt_start, dt_end,
                   dt_current, df, res, records, files, batches>>

Next ==
    \/ Login
    \/ QueryDevices
    \/ GetAttributeKeys
    \/ GetAttributes
    \/ GetTimeseriesKeys
    \/ GetTimeseries
    \/ FinishDevice
    \/ SaveMetadata

Spec == Init /\ [][Next]_vars

\* runs of one device over every range, with every float rounding
InitPlan ==
    /\ profile = <<1>>
    /\ cloud \in Clouds({1}, {<<KT>>}, 0)
    /\ args \in [start_time : Times, end_time : Times,
                 keys : {None}, output_format : {"csv"}]
    /\ closedEnd = FALSE
    /\ fperr \in FloatErrors
    /\ failAt = 0
    /\ InitProgram
    /\ IdleLookup

SpecPlan == InitPlan /\ [][Next]_vars

\* the strings of at most MaxArgLen characters
ArgStrings == UNION {[1..n -> {"t", "h", COMMA}] : n \in 0..MaxArgLen}

AllKeyLists == {<< >>, <<KT>>, <<KH>>, <<KT, KH>>, <<KH, KT>>}

\* runs of one device with every --keys argument
InitKeys ==
    /\ profile = <<1>>
    /\ cloud \in Clouds({1}, AllKeyLists, 1)
    /\ args \in [start_time : {0}, end_time : {LastTick},
                 keys : {None} \cup {Some(a) : a \in ArgStrings},
                 output_format : {"csv", "parquet"}]
    /\ closedEnd = FALSE
    /\ fperr = NoFloatError
    /\ failAt = 0
    /\ InitProgram
    /\ IdleLookup

SpecKeys == InitKeys /\ [][Next]_vars

\* every place a run can fail at: the login, the device query, and per device
\* the three calls before the windows and one call per window
FailurePoints == 0..(2 + MaxDevices * (3 + MaxDays))

\* runs over whole days in which one remote call, or none, raises
InitFail ==
    /\ profile \in DeviceLists
    /\ cloud \in Clouds(Range(FindDevices), {<<KT>>}, 1)
    /\ args \in [start_time : {0}, end_time : {LastTick},
                 keys : {None}, output_format : {"csv"}]
    /\ closedEnd = FALSE
    /\ fperr = NoFloatError
    /\ failAt \in FailurePoints
    /\ InitProgram
    /\ IdleLookup

SpecFail == InitFail /\ [][Next]_vars

----------------------------------------------------------------------------
(* get_attribute.py *)

MatchValues == {"a", "b"}

\* the value of the requested attribute on device d
AttrOf(d) == 10 + d

\* find_entity_data_by_query_using_post(body=query): the devices whose match
\* attribute equals the value, in id order, one page of pageSize of them
RECURSIVE Ascending(_)
Ascending(S) ==
    IF S = {} THEN << >>
    ELSE LET m == CHOOSE x \in S : \A y \in S : x <= y
         IN <<m>> \o Ascending(S \ {m})

Matching(value) == {d \in DOMAIN directory : directory[d].match = value}

\* mutant of QueryPage: a page of one entity
QueryFirstMatch(value) ==
    LET all == Ascending(Matching(value))
    IN SubSeq(all, 1, Min(Len(all), 1))

QueryPage(value) ==
    LET all == Ascending(Matching(value))
    IN SubSeq(all, 1, Min(Len(all), pageSize))

\* lines 31-99: get_attribute: [raised, value]
get_attribute(value) ==
    LET data == QueryPage(value)
    IN IF Len(data) # 1
       THEN [raised |-> "ValueError", value |-> None]
       ELSE [raised |-> "", value |-> Some(AttrOf(data[1]))]

AFrame == UNCHANGED <<envvars, evars>>

\* line 151: tb.login, and the CSV read (lines 154-163)
AttrLogin ==
    /\ AFrame
    /\ apc = "login"
    /\ row' = 1
    /\ apc' = "apply"
    /\ UNCHANGED <<directory, rows, looked>>

\* lines 166-173: df[...].apply(lambda row: get_attribute(...)), one row; an
\* exception leaves apply and ends the script
AttrLookup ==
    /\ AFrame
    /\ apc = "apply"
    /\ row <= Len(rows)
    /\ LET r == get_attribute(rows[row])
       IN /\ looked' = Append(looked, [value |-> rows[row], raised |-> r.raised,
                                       result |-> r.value])
          /\ apc' = IF r.raised # "" THEN "error" ELSE "apply"
    /\ row' = row + 1
    /\ UNCHANGED <<directory, rows>>

\* lines 178-180: the enriched CSV is saved
AttrSave ==
    /\ AFrame
    /\ apc = "apply"
    /\ row > Len(rows)
    /\ apc' = "saved"
    /\ UNCHANGED <<directory, rows, row, looked>>

NextAttr == AttrLogin \/ AttrLookup \/ AttrSave

RowLists == UNION {[1..n -> MatchValues \cup {"c"}] : n \in 0..MaxRows}

InitAttr ==
    /\ directory \in [1..MaxDirectory -> [match : MatchValues]]
    /\ rows \in RowLists
    /\ row = 0
    /\ looked = << >>
    /\ apc = "login"
    /\ profile = << >>
    /\ cloud \in Clouds({}, {<< >>}, 0)
    /\ args = [start_time |-> 0, end_time |-> 0, keys |-> None, output_format |-> "csv"]
    /\ closedEnd = FALSE
    /\ fperr = NoFloatError
    /\ failAt = 0
    /\ InitProgram

SpecAttr == InitAttr /\ [][NextAttr]_vars

----------------------------------------------------------------------------
(* Properties *)

Terminated == pc \in {"done", "error"}

\* the get_timeseries requests made for device d, in order
WindowsOf(d) ==
    LET isWindow(c) == c.op = "get_timeseries" /\ c.device = d
    IN SelectSeq(calls, isWindow)

\* the while loop of the current device has ended and the device is not yet finished
LoopEnded == pc = "while" /\ ~(dt_current < dt_end)

\* the millisecond a datetime lies in
MsOf(dt) == dt \div TicksPerMs

CeilDiv(a, b) == (a + b - 1) \div b

\* C1: when the window loop of a device has ended, the windows requested for
\* it are: none when T0 >= T1; otherwise ceil((T1-T0)/D) of them, the first
\* starting at T0, each ending where the next starts, each but the last of
\* length D, none ending before it starts, the last ending at T1.
C1_WindowsTileTheRange ==
    LoopEnded =>
        LET W == WindowsOf(device_id)
            n == Len(W)
        IN IF dt_start >= dt_end
           THEN n = 0
           ELSE /\ n = CeilDiv(dt_end - dt_start, batch_window)
                /\ W[1].start_ts = MsOf(dt_start)
                /\ W[n].end_ts = MsOf(dt_end)
                /\ \A i \in 1..n : W[i].start_ts <= W[i].end_ts
                /\ \A i \in 1..(n - 1) :
                       /\ W[i].end_ts = W[i + 1].start_ts
                       /\ W[i].end_ts - W[i].start_ts = MsOf(batch_window)

\* What the window loop does guarantee, float rounding included: the number
\* of windows, that they are contiguous and do not overlap, and that they run
\* from the converted T0 to the converted T1.
WindowsContiguous ==
    LoopEnded =>
        LET W == WindowsOf(device_id)
            n == Len(W)
        IN IF dt_start >= dt_end
           THEN n = 0
           ELSE /\ n = CeilDiv(dt_end - dt_start, batch_window)
                /\ W[1].start_ts = ToMs(dt_start)
                /\ W[n].end_ts = ToMs(dt_end)
                /\ \A i \in 1..n : W[i].start_ts <= W[i].end_ts
                /\ \A i \in 1..(n - 1) : W[i].end_ts = W[i + 1].start_ts

\* C2: the metadata file holds exactly one DeviceMeta for every device whose
\* table was persisted, in enumeration order, each with that device's id, file
\* name and row count.
C2_MetadataListsEveryPersistedDevice ==
    meta_file # None =>
        LET hasFile(m) == m.telemetry.file # None
            listed == SelectSeq(meta_file[1].content, hasFile)
        IN /\ Len(listed) = Len(files)
           /\ \A i \in 1..Len(listed) :
                  /\ listed[i].device_id = files[i].name.device
                  /\ listed[i].telemetry.file = Some(files[i].name)
                  /\ listed[i].telemetry.size = Some(Len(files[i].rows))

\* C3: a run whose device query returns no device ends without an error, has
\* written no table file, and has written the metadata file with an empty list.
C3_EmptyProfileRunCompletes ==
    (Terminated /\ device_ids = << >>) =>
        /\ pc = "done"
        /\ error = ""
        /\ files = << >>
        /\ meta_file # None
        /\ meta_file[1].content = << >>

\* the devices the exporter found no data for (line 223)
Skipped == {calls[i].device : i \in {j \in 1..Len(calls) : calls[j].op = "warning_no_data"}}

\* C4: a device whose table stayed empty gets no table file, the run goes on
\* to its end without an error, and the metadata file holds a DeviceMeta of
\* that device with telemetry.keys set and neither file nor size.
C4_SkippedDeviceKeepsItsMeta ==
    Terminated =>
        \A d \in Skipped :
            /\ pc = "done"
            /\ \A i \in 1..Len(files) : files[i].name.device # d
            /\ meta_file # None
            /\ \E i \in 1..Len(meta_file[1].content) :
                   LET m == meta_file[1].content[i]
                   IN /\ m.device_id = d
                      /\ m.telemetry.keys # None
                      /\ m.telemetry.file = None
                      /\ m.telemetry.size = None

\* the timestamps that occur in a response, and the keys with a sample at one
SampleTimes(response) ==
    UNION {{response[i].samples[j].ts : j \in 1..Len(response[i].samples)}
           : i \in 1..Len(response)}

KeysAt(response, ts) ==
    {response[i].key : i \in {m \in 1..Len(response) :
                                 \E j \in 1..Len(response[m].samples) :
                                     response[m].samples[j].ts = ts}}

\* C5: the records merged from a response are one per distinct timestamp of
\* the response; the record of a timestamp holds ts and exactly the keys with
\* a sample at that timestamp, each with the value of that sample.
C5_OneRecordPerTimestamp ==
    "records" \in bound =>
        /\ Len(records) = Cardinality(SampleTimes(res))
        /\ {records[i].k : i \in 1..Len(records)} = SampleTimes(res)
        /\ \A i \in 1..Len(records) :
               LET r == records[i].row
                   ts == records[i].k
               IN /\ DOMAIN r = {TS} \cup KeysAt(res, ts)
                  /\ r[TS] = ts
                  /\ \A m \in 1..Len(res) : \A j \in 1..Len(res[m].samples) :
                         res[m].samples[j].ts = ts
                             => r[res[m].key] = res[m].samples[j].value

\* C5 witness: a response in which two keys share a timestamp has been merged
C5_SharedTimestampMerged ==
    /\ "records" \in bound
    /\ \E i \in 1..Len(records) : Cardinality(KeysAt(res, records[i].k)) = 2
    /\ \E i \in 1..Len(res) : res[i].samples # << >>

\* C6 as claimed: the table of a device never holds two records of one timestamp.
C6_OneRecordPerTimestampInTable ==
    \A i, j \in 1..Len(df.rows) : i # j => df.rows[i][TS] # df.rows[j][TS]

RECURSIVE Flatten(_)
Flatten(lists) ==
    IF lists = << >> THEN << >> ELSE Head(lists) \o Flatten(Tail(lists))

\* C6 as amended: inside the window loop the table holds the records of all
\* batches so far, batch after batch, none dropped and none replaced (a
\* timestamp returned in two batches has a row for each).
C6_TableIsConcatenationOfBatches ==
    pc = "while" => df.rows = Flatten(batches)

\* C6 witness: the same timestamp came back in two batches, and the table
\* holds both records
C6_TimestampInTwoBatches ==
    /\ pc = "while"
    /\ \E a, b \in 1..Len(batches) :
           /\ a < b
           /\ \E i \in 1..Len(batches[a]) : \E j \in 1..Len(batches[b]) :
                  batches[a][i][TS] = batches[b][j][TS]
    /\ \E i, j \in 1..Len(df.rows) : i # j /\ df.rows[i][TS] = df.rows[j][TS]

\* a key filter is given: --keys with a non-empty argument
FilterGiven == args.keys # None /\ args.keys[1] # << >>

\* C7: once the keys of a device are fetched: with a filter the exported keys
\* are the available keys that are in the filter, without one they are the
\* available keys; meta holds the available list under keys and the exported
\* list under exported_keys; every request names exactly the exported keys.
C7_ExportedKeysAreFilteredKeys ==
    pc = "while" =>
        LET keys == cloud[device_id].keys
            wanted == IF FilterGiven
                      THEN Range(keys) \cap Range(Split(args.keys[1]))
                      ELSE Range(keys)
        IN /\ Range(telemetry_keys) = wanted
           /\ Len(telemetry_keys) = Cardinality(wanted)
           /\ Range(telemetry_keys) \subseteq Range(keys)
           /\ ~FilterGiven => telemetry_keys = keys
           /\ meta.telemetry.keys = Some(keys)
           /\ meta.telemetry.exported_keys = Some(telemetry_keys)
           /\ \A i \in 1..Len(WindowsOf(device_id)) :
                  {k \in Range(Split(WindowsOf(device_id)[i].keys)) : k # << >>}
                      = Range(telemetry_keys)

\* C7 witness: a filter kept some keys of a device and dropped others, and a
\* request has been made
C7_FilterDroppedAKey ==
    /\ pc = "while"
    /\ FilterGiven
    /\ telemetry_keys # << >>
    /\ telemetry_keys # cloud[device_id].keys
    /\ WindowsOf(device_id) # << >>

\* the keys that hold a value in some row
KeysIn(rws) == UNION {DOMAIN rws[i] : i \in 1..Len(rws)}

\* C8 as claimed: the columns of a written table are ts and the keys present
\* in at least one of its records.
C8_ColumnsAreKeysWithSamples ==
    \A i \in 1..Len(files) :
        Range(files[i].columns) = {TS} \cup KeysIn(files[i].rows)

\* C8 as amended: the columns of a written table are ts and every exported key
\* of the device, with or without a sample; the keys present in its records
\* are among them, and no column occurs twice.
C8_ColumnsAreExportedKeys ==
    \A i \in 1..Len(files) :
        LET f == files[i]
            exported == IF FilterGiven
                        THEN Range(cloud[f.name.device].keys)
                                 \cap Range(Split(args.keys[1]))
                        ELSE Range(cloud[f.name.device].keys)
        IN /\ Range(f.columns) = {TS} \cup exported
           /\ KeysIn(f.rows) \subseteq Range(f.columns)
           /\ Len(f.columns) = Cardinality(Range(f.columns))

\* C8 witness: a written table has a column of an exported key without any sample
C8_ColumnWithoutSample ==
    \E i \in 1..Len(files) :
        \E c \in Range(files[i].columns) : c \notin KeysIn(files[i].rows)

\* C9: every lookup returned a value exactly when one device matched, the
\* value being that device's attribute; with no match or several it raised
\* ValueError, returned nothing, and the error reached the caller.
C9_ValueOnlyForExactlyOneMatch ==
    \A i \in 1..Len(looked) :
        LET n == Cardinality(Matching(looked[i].value))
        IN /\ n = 1 => /\ looked[i].raised = ""
                       /\ \E d \in Matching(looked[i].value) :
                              looked[i].result = Some(AttrOf(d))
           /\ n # 1 => /\ looked[i].raised = "ValueError"
                       /\ looked[i].result = None
                       /\ i = Len(looked)
                       /\ apc = "error"

\* C9 witness: one lookup matched a single device and returned, a later one
\* matched several and raised
C9_ReturnedThenRaised ==
    /\ Len(looked) = 2
    /\ looked[1].raised = ""
    /\ Cardinality(Matching(looked[2].value)) > 1
    /\ looked[2].raised = "ValueError"

\* the place of a device in the enumeration
PlaceOf(d) == CHOOSE i \in 1..Len(device_ids) : device_ids[i] = d

CallsOf(op) == {i \in 1..Len(calls) : calls[i].op = op}

\* C10: the calls of a device all come before those of the next device, a
\* device has at most one table file written, the metadata file is written
\* only after the last device, and a run that has ended has written it
\* exactly once.
C10_SequentialAndMetadataOnce ==
    /\ \A a, b \in 1..Len(calls) :
           (a < b /\ calls[a].device # 0 /\ calls[b].device # 0)
               => PlaceOf(calls[a].device) <= PlaceOf(calls[b].device)
    /\ \A a, b \in CallsOf("write_file") : calls[a].device = calls[b].device => a = b
    /\ \A a \in CallsOf("write_metadata") : a = Len(calls) /\ idx > Len(device_ids)
    /\ Terminated => Cardinality(CallsOf("write_metadata")) = 1

\* What holds of every run that found a device: C10 as it stands.
SequentialWhenDevicesFound ==
    device_ids # << >> => C10_SequentialAndMetadataOnce

Failed == error = "ApiException"

LastCall == calls[Len(calls)]

FileDevices == {files[i].name.device : i \in 1..Len(files)}

\* the state of a run in which a remote call failed
AbortedAtTheFailure ==
    Failed =>
        /\ pc = "error"
        /\ Cardinality(RemoteCalls) = failAt
        /\ LastCall.op \in RemoteOps
        /\ meta_file = None
        /\ CallsOf("write_metadata") = {}
        /\ Len(files) = Cardinality(CallsOf("write_file"))
        /\ IF LastCall.device = 0
           THEN /\ files = << >>
                /\ \A i \in 1..Len(calls) : calls[i].device = 0
           ELSE /\ LastCall.device = device_ids[idx]
                /\ LastCall.device \notin FileDevices
                /\ \A d \in FileDevices : PlaceOf(d) < idx
                /\ \A i \in 1..Len(calls) :
                       calls[i].device # 0 => PlaceOf(calls[i].device) <= idx

\* the step in which the call fails writes nothing, and nothing follows it
NothingWrittenFromTheFailure ==
    /\ Failed' => (files' = files /\ meta_file' = meta_file /\ idx' = idx)
    /\ Failed => (calls' = calls /\ pc' = pc)

\* C11: when a remote call fails the run ends there: the failed call is the
\* last thing the run did, no device after the failing one is touched, the
\* failing device has no table file, the metadata file is not written, and
\* the table files of the earlier devices stay as they were written.
C11_RemoteFailureAbortsRun ==
    []AbortedAtTheFailure /\ [][NothingWrittenFromTheFailure]_vars

\* a window request of the second device failed after the first device's
\* table was written
C11_SecondDeviceFailedAfterFirstFile ==
    /\ Failed
    /\ LastCall.op = "get_timeseries"
    /\ idx = 2
    /\ Len(files) = 1
    /\ files[1].name.device = device_ids[1]

====
